---- MODULE Spec2Model ----
(***************************************************************************)
(* A model of ipwb's replay module (src/ipwb/replay.py): the CDXJ index    *)
(* search, the Memento / TimeGate / TimeMap handlers and the               *)
(* reconstruction of an archived HTTP response.                            *)
(*                                                                         *)
(* Python strings are modelled as sequences of character codes, so that    *)
(* string comparison, splitting, slicing and number parsing are computed   *)
(* rather than assumed.  Python's 0-based indices are kept: element i of   *)
(* a Python list l is l[i + 1] here.                                       *)
(***************************************************************************)
EXTENDS Integers, Sequences, FiniteSets, TLC

VARIABLES cdxj, call, ret, log

vars == <<cdxj, call, ret, log>>

(***************************************************************************)
(* Bounds of the model.                                                    *)
(***************************************************************************)
MaxKeys == 2
MaxStamps == 3
MaxLines == 3
MaxMeta == 2
MaxTmStamps == 7
MaxBody == 3
MaxHeaders == 2

(***************************************************************************)
(* Characters and strings.                                                 *)
(***************************************************************************)
Ch == [LF |-> 10, CR |-> 13, SP |-> 32, BANG |-> 33, RPAR |-> 41,
       COMMA |-> 44, DOT |-> 46, SLASH |-> 47, ZERO |-> 48, NINE |-> 57,
       COLON |-> 58, SEMI |-> 59, A |-> 97, F |-> 102, X |-> 120]

None == <<>>
Some(x) == <<x>>

Min(a, b) == IF a < b THEN a ELSE b
Max(a, b) == IF a > b THEN a ELSE b

\* Python's s[i:j] for 0 <= i, j (clamped to the length of s).
Slice(s, i, j) ==
    LET lo == Min(i, Len(s))
        hi == Min(j, Len(s))
    IN  IF hi <= lo THEN <<>> ELSE SubSeq(s, lo + 1, hi)

\* Python's s[i:].
SliceFrom(s, i) == Slice(s, i, Len(s))

\* Python's a < b on str: lexicographic on code points.
RECURSIVE StrLess(_, _)
StrLess(a, b) ==
    IF b = <<>> THEN FALSE
    ELSE IF a = <<>> THEN TRUE
    ELSE IF Head(a) # Head(b) THEN Head(a) < Head(b)
    ELSE StrLess(Tail(a), Tail(b))

\* The position of the first c in s (0-based), or -1: Python's s.find(c).
RECURSIVE FindFrom(_, _, _)
FindFrom(s, c, i) ==
    IF i >= Len(s) THEN -1
    ELSE IF s[i + 1] = c THEN i
    ELSE FindFrom(s, c, i + 1)

Find(s, c) == FindFrom(s, c, 0)

\* Python's s.split(c, maxsplit).
RECURSIVE Split(_, _, _)
Split(s, c, maxsplit) ==
    LET i == Find(s, c)
    IN  IF maxsplit = 0 \/ i < 0 THEN <<s>>
        ELSE <<Slice(s, 0, i)>> \o Split(SliceFrom(s, i + 1), c, maxsplit - 1)

\* Python's sep.join(parts).
RECURSIVE Join(_, _)
Join(parts, sep) ==
    IF parts = <<>> THEN <<>>
    ELSE IF Len(parts) = 1 THEN parts[1]
    ELSE parts[1] \o sep \o Join(Tail(parts), sep)

RECURSIVE Reverse(_)
Reverse(s) == IF s = <<>> THEN <<>> ELSE Reverse(Tail(s)) \o <<Head(s)>>

IsDigit(c) == c >= Ch.ZERO /\ c <= Ch.NINE

\* Python's int(s) of a string of decimal digits.
RECURSIVE DecValue(_, _)
DecValue(s, acc) ==
    IF s = <<>> THEN acc
    ELSE DecValue(Tail(s), 10 * acc + (Head(s) - Ch.ZERO))

\* The decimal digits of n, most significant first.
RECURSIVE DecDigits(_)
DecDigits(n) ==
    IF n < 10 THEN <<Ch.ZERO + n>>
    ELSE DecDigits(n \div 10) \o <<Ch.ZERO + (n % 10)>>

Abs(n) == IF n < 0 THEN 0 - n ELSE n

IsSpace(c) == c \in {9, 10, 11, 12, 13, 32}

\* Python's s.strip().
RECURSIVE LStrip(_)
LStrip(s) == IF s # <<>> /\ IsSpace(Head(s)) THEN LStrip(Tail(s)) ELSE s

Strip(s) == Reverse(LStrip(Reverse(LStrip(s))))

HexDigit(c) ==
    IF IsDigit(c) THEN c - Ch.ZERO
    ELSE IF c >= Ch.A /\ c <= Ch.F THEN c - Ch.A + 10
    ELSE IF c >= 65 /\ c <= 70 THEN c - 65 + 10
    ELSE -1

\* Python's int(s, 16) of a string without sign, "0x" prefix, underscore or
\* blanks: Some(value), or None where int raises ValueError.
RECURSIVE HexLoop(_, _)
HexLoop(s, acc) ==
    IF s = <<>> THEN Some(acc)
    ELSE IF HexDigit(Head(s)) < 0 THEN None
    ELSE HexLoop(Tail(s), 16 * acc + HexDigit(Head(s)))

HexValue(s) == IF s = <<>> THEN None ELSE HexLoop(s, 0)

\* bytes.decode() (UTF-8) of one- and two-byte sequences: Some(str), or
\* None where decode raises UnicodeDecodeError.
RECURSIVE Utf8Decode(_)
Utf8Decode(bytes) ==
    IF bytes = <<>> THEN Some(<<>>)
    ELSE IF Head(bytes) < 128
    THEN LET rest == Utf8Decode(Tail(bytes))
         IN  IF rest = None THEN None ELSE Some(<<Head(bytes)>> \o rest[1])
    ELSE IF /\ Head(bytes) >= 194 /\ Head(bytes) <= 223 /\ Len(bytes) >= 2
            /\ bytes[2] >= 128 /\ bytes[2] <= 191
    THEN LET rest == Utf8Decode(SubSeq(bytes, 3, Len(bytes)))
         IN  IF rest = None THEN None
             ELSE Some(<<(Head(bytes) - 192) * 64 + (bytes[2] - 128)>> \o rest[1])
    ELSE None

\* str.encode() (UTF-8) of code points below 2048.
RECURSIVE Utf8Encode(_)
Utf8Encode(str) ==
    IF str = <<>> THEN <<>>
    ELSE (IF Head(str) < 128 THEN <<Head(str)>>
          ELSE <<192 + (Head(str) \div 64), 128 + (Head(str) % 64)>>)
             \o Utf8Encode(Tail(str))

(***************************************************************************)
(* URI-Rs, SURT keys and datetimes.                                        *)
(***************************************************************************)

\* surt.surt(urir, path_strip_trailing_slash_unless_empty=False) for a
\* scheme-less "host/path" URI-R: the host labels reversed and joined by
\* ',' then ')' and the path.
surt(urir) ==
    LET i == Find(urir, Ch.SLASH)
        host == IF i < 0 THEN urir ELSE Slice(urir, 0, i)
        path == IF i < 0 THEN <<Ch.SLASH>> ELSE SliceFrom(urir, i)
    IN  Join(Reverse(Split(host, Ch.DOT, -1)), <<Ch.COMMA>>)
            \o <<Ch.RPAR>> \o path

\* util.unsurt: the URI-R of a SURT key.
unsurt(s) ==
    LET i == Find(s, Ch.RPAR)
    IN  IF i < 0 THEN s
        ELSE Join(Reverse(Split(Slice(s, 0, i), Ch.COMMA, -1)), <<Ch.DOT>>)
                 \o SliceFrom(s, i + 1)

\* The URI-Rs of the model: a.x/  a.x/a  b.x/  c.x/ ...
UriPool(i) ==
    IF i = 2 THEN <<Ch.A, Ch.DOT, Ch.X, Ch.SLASH, Ch.A>>
    ELSE <<Ch.A + (IF i = 1 THEN 0 ELSE i - 2), Ch.DOT, Ch.X, Ch.SLASH>>

\* URI-Rs with captures in the index, and URI-Rs that are requested (one
\* more: a URI-R that is never captured).
Urirs == {UriPool(i) : i \in 1..MaxKeys}
AllUrirs == {UriPool(i) : i \in 1..(MaxKeys + 1)}

\* Datetimes are 4 digits here (YYMS) where the program has 14
\* (YYYYMMDDhhmmss): 2010, 2020, 2030, ...
Stamp(i) == DecDigits(2000 + 10 * i)
Stamps == {Stamp(i) : i \in 1..MaxStamps}

\* Datetimes asked for: on a capture, just after one, half way to the next.
Targets == {DecDigits(2000 + 10 * i + d) : i \in 1..MaxStamps, d \in {0, 1, 5}}

(***************************************************************************)
(* The index: a sequence of lines (content.split('\n')).  A data line is   *)
(* "surt datetime json", kept as its three fields; a metadata line starts  *)
(* with '!'; the last line is empty when the file ends with a newline.     *)
(***************************************************************************)
NoJson == [status_code |-> None, mime_type |-> "text/plain"]

DataLine(s, dt, j) == [surt |-> s, datetime |-> dt, json |-> j]
MetaLine(i) == [surt |-> <<Ch.BANG, Ch.A + i>>, datetime |-> <<>>, json |-> NoJson]
BlankLine == [surt |-> <<>>, datetime |-> <<>>, json |-> NoJson]

\* f"{surt} {datetime}"
KeyStamp(s, dt) == s \o <<Ch.SP>> \o dt

\* The order the indexer keeps the data lines in.
LineLess(l1, l2) ==
    StrLess(KeyStamp(l1.surt, l1.datetime), KeyStamp(l2.surt, l2.datetime))

\* line[0] == '!'
IsMeta(line) == line.surt # <<>> /\ line.surt[1] = Ch.BANG
\* len(line.strip()) == 0
IsBlank(line) == line.surt = <<>>
IsData(line) == ~IsMeta(line) /\ ~IsBlank(line)

\* line.split(' ')[0]
FirstField(line) == line.surt

RECURSIVE objectify_data(_, _)
objectify_data(lines, only_uri) ==
    IF lines = <<>> \/ IsBlank(Head(lines)) THEN <<>>
    ELSE IF IsMeta(Head(lines)) THEN objectify_data(Tail(lines), only_uri)
    ELSE <<IF only_uri THEN Head(lines).surt
           ELSE KeyStamp(Head(lines).surt, Head(lines).datetime)>>
             \o objectify_data(Tail(lines), only_uri)

RECURSIVE objectify_metadata(_)
objectify_metadata(lines) ==
    IF lines = <<>> \/ IsBlank(Head(lines)) THEN <<>>
    ELSE IF IsMeta(Head(lines)) THEN <<Head(lines)>> \o objectify_metadata(Tail(lines))
    ELSE objectify_metadata(Tail(lines))

objectify_cdxj_data(lines, only_uri) ==
    [metadata |-> objectify_metadata(lines),
     data |-> objectify_data(lines, only_uri)]

\* bisect.bisect_left(a, x, lo, hi)
RECURSIVE bisect_left(_, _, _, _)
bisect_left(a, x, lo, hi) ==
    IF lo < hi
    THEN LET mid == (lo + hi) \div 2
         IN  IF StrLess(a[mid + 1], x) THEN bisect_left(a, x, mid + 1, hi)
             ELSE bisect_left(a, x, lo, mid)
    ELSE lo

binary_search_no_offset(haystack, needle, returnIndex, only_uri) ==
    LET cdxj_obj == objectify_cdxj_data(haystack, only_uri)
        surt_uris_and_datetimes == cdxj_obj.data
        uBound == Len(surt_uris_and_datetimes)
        pos == bisect_left(surt_uris_and_datetimes, needle, 0, uBound)
    IN  IF pos # uBound /\ surt_uris_and_datetimes[pos + 1] = needle
        THEN IF returnIndex THEN Some(pos) ELSE Some(haystack[pos + 1])
        ELSE None

binary_search(haystack, needle, returnIndex, only_uri) ==
    LET cdxj_obj == objectify_cdxj_data(haystack, only_uri)
        surt_uris_and_datetimes == cdxj_obj.data
        meta_line_count == Len(cdxj_obj.metadata)
        uBound == Len(surt_uris_and_datetimes)
        pos == bisect_left(surt_uris_and_datetimes, needle, 0, uBound)
    IN  IF pos # uBound /\ surt_uris_and_datetimes[pos + 1] = needle
        THEN IF returnIndex THEN Some(pos + meta_line_count)
             ELSE Some(haystack[pos + meta_line_count + 1])
        ELSE None

\* get_cdxj_line_binarySearch reads the index file and searches its lines.
get_cdxj_line_binarySearch(surt_uri, content, retIndex, only_uri) ==
    binary_search(content, surt_uri, retIndex, only_uri)

\* The adjacency scan of get_cdxj_lines_with_urir before the pivot:
\* sI = cdxj_line_index - 1 down to 0.
RECURSIVE lines_before(_, _, _)
lines_before(cdxj_lines, s, sI) ==
    IF sI >= 0
    THEN (IF FirstField(cdxj_lines[sI + 1]) = s THEN <<cdxj_lines[sI + 1]>> ELSE <<>>)
             \o lines_before(cdxj_lines, s, sI - 1)
    ELSE <<>>

\* lines_after with the scan stopping one line early.
RECURSIVE lines_after_short(_, _, _)
lines_after_short(cdxj_lines, s, sI) ==
    IF sI < Len(cdxj_lines) - 1
    THEN (IF FirstField(cdxj_lines[sI + 1]) = s THEN <<cdxj_lines[sI + 1]>> ELSE <<>>)
             \o lines_after_short(cdxj_lines, s, sI + 1)
    ELSE <<>>

\* ... and after it: sI = cdxj_line_index + 1 up to the last line.
RECURSIVE lines_after(_, _, _)
lines_after(cdxj_lines, s, sI) ==
    IF sI < Len(cdxj_lines)
    THEN (IF FirstField(cdxj_lines[sI + 1]) = s THEN <<cdxj_lines[sI + 1]>> ELSE <<>>)
             \o lines_after(cdxj_lines, s, sI + 1)
    ELSE <<>>

\* get_cdxj_lines_with_urir from cdxj_line_index on: the pivot, the lines
\* before it and the lines after it, out of the content read then.
lines_at(s, cdxj_line_index, content) ==
    IF cdxj_line_index = None THEN <<>>
    ELSE <<content[cdxj_line_index[1] + 1]>>
             \o lines_before(content, s, cdxj_line_index[1] - 1)
             \o lines_after(content, s, cdxj_line_index[1] + 1)

\* lines_with_urir with the pivot appended after the two scans.
lines_with_urir_pivot_last(urir, searched, content) ==
    LET s == surt(urir)
        cdxj_line_index == get_cdxj_line_binarySearch(s, searched, TRUE, TRUE)
    IN  IF cdxj_line_index = None THEN <<>>
        ELSE lines_before(content, s, cdxj_line_index[1] - 1)
                 \o lines_after(content, s, cdxj_line_index[1] + 1)
                 \o <<content[cdxj_line_index[1] + 1]>>

\* get_cdxj_lines_with_urir reads the index twice: `searched` is the
\* content the binary search saw, `content` the content it scans.
lines_with_urir(urir, searched, content) ==
    lines_at(surt(urir),
             get_cdxj_line_binarySearch(surt(urir), searched, TRUE, TRUE),
             content)

get_cdxj_lines_with_urir(urir, content) == lines_with_urir(urir, content, content)

\* get_cdxj_line_closest_to: the loop over cdxj_lines, from
\* smallest_diff = inf (None here) and best_line = None.
\* closest_loop with diff <= smallest_diff.
RECURSIVE closest_loop_le(_, _, _, _)
closest_loop_le(datetime_target, cdxj_lines, smallest_diff, best_line) ==
    IF cdxj_lines = <<>> THEN best_line
    ELSE LET cdxj_line == Head(cdxj_lines)
             dt == DecValue(cdxj_line.datetime, 0)
             diff == Abs(dt - datetime_target)
         IN  IF smallest_diff = None \/ diff <= smallest_diff[1]
             THEN closest_loop_le(datetime_target, Tail(cdxj_lines), Some(diff), Some(cdxj_line))
             ELSE closest_loop_le(datetime_target, Tail(cdxj_lines), smallest_diff, best_line)

\* closest_loop that passes over a capture at the target itself.
RECURSIVE closest_loop_not_exact(_, _, _, _)
closest_loop_not_exact(datetime_target, cdxj_lines, smallest_diff, best_line) ==
    IF cdxj_lines = <<>> THEN best_line
    ELSE LET cdxj_line == Head(cdxj_lines)
             dt == DecValue(cdxj_line.datetime, 0)
             diff == Abs(dt - datetime_target)
         IN  IF (smallest_diff = None \/ diff < smallest_diff[1])
                    /\ (diff # 0 \/ Len(cdxj_lines) = 1)
             THEN closest_loop_not_exact(datetime_target, Tail(cdxj_lines),
                                         Some(diff), Some(cdxj_line))
             ELSE closest_loop_not_exact(datetime_target, Tail(cdxj_lines),
                                         smallest_diff, best_line)

RECURSIVE closest_loop(_, _, _, _)
closest_loop(datetime_target, cdxj_lines, smallest_diff, best_line) ==
    IF cdxj_lines = <<>> THEN best_line
    ELSE LET cdxj_line == Head(cdxj_lines)
             dt == DecValue(cdxj_line.datetime, 0)
             diff == Abs(dt - datetime_target)
         IN  IF smallest_diff = None \/ diff < smallest_diff[1]
             THEN closest_loop(datetime_target, Tail(cdxj_lines), Some(diff), Some(cdxj_line))
             ELSE closest_loop(datetime_target, Tail(cdxj_lines), smallest_diff, best_line)

get_cdxj_line_closest_to(datetime_target, cdxj_lines) ==
    closest_loop(DecValue(datetime_target, 0), cdxj_lines, None, None)

(***************************************************************************)
(* TimeMaps.  A TimeMap text is kept as its lines (tm.split('\n')); a      *)
(* line is kept as the words of its rel attribute, the URI it links and,   *)
(* for a memento, the datetime of its URI-M.                               *)
(***************************************************************************)
TmLine(rel, uri, dt) == [rel |-> rel, uri |-> uri, datetime |-> dt]
EmptyTmLine == TmLine(<<>>, <<>>, <<>>)

generate_link_timemap_from_cdxj_lines(cdxj_lines, original) ==
    LET n == Len(cdxj_lines)
        first_last_str(i) ==
            IF n > 1
            THEN (IF i = 0 THEN <<"first">>
                  ELSE IF i = n - 1 THEN <<"last">> ELSE <<>>)
            ELSE IF n = 1 THEN <<"first", "last">> ELSE <<>>
    IN  <<TmLine(<<"original">>, unsurt(original), <<>>),
          TmLine(<<"self", "timemap">>, unsurt(original), <<>>),
          TmLine(<<"timemap">>, unsurt(original), <<>>),
          TmLine(<<"timegate">>, unsurt(original), <<>>)>>
        \o [i \in 1..n |->
              TmLine(first_last_str(i - 1) \o <<"memento">>,
                     unsurt(cdxj_lines[i].surt), cdxj_lines[i].datetime)]
        \o <<EmptyTmLine>>

\* generate_cdxj_timemap_from_cdxj_lines with the first / last test made
\* for a single capture too.
generate_cdxj_timemap_no_single(cdxj_lines, original) ==
    LET n == Len(cdxj_lines)
        first_last_str(i) ==
            IF n >= 1
            THEN (IF i = 0 THEN <<"first">>
                  ELSE IF i = n - 1 THEN <<"last">> ELSE <<>>)
            ELSE <<>>
    IN  <<TmLine(<<"!context">>, <<>>, <<>>),
          TmLine(<<"!id">>, unsurt(original), <<>>),
          TmLine(<<"!keys">>, <<>>, <<>>),
          TmLine(<<"!meta", "original_uri">>, unsurt(original), <<>>),
          TmLine(<<"!meta", "timegate_uri">>, unsurt(original), <<>>),
          TmLine(<<"!meta", "timemap_uri">>, unsurt(original), <<>>)>>
        \o [i \in 1..n |->
              TmLine(first_last_str(i - 1) \o <<"memento">>,
                     cdxj_lines[i].surt, cdxj_lines[i].datetime)]
        \o <<EmptyTmLine>>

\* The six '!' lines of the preamble, then one line per capture.
generate_cdxj_timemap_from_cdxj_lines(cdxj_lines, original) ==
    LET n == Len(cdxj_lines)
        first_last_str(i) ==
            IF n > 1
            THEN (IF i = 0 THEN <<"first">>
                  ELSE IF i = n - 1 THEN <<"last">> ELSE <<>>)
            ELSE IF n = 1 THEN <<"first", "last">> ELSE <<>>
    IN  <<TmLine(<<"!context">>, <<>>, <<>>),
          TmLine(<<"!id">>, unsurt(original), <<>>),
          TmLine(<<"!keys">>, <<>>, <<>>),
          TmLine(<<"!meta", "original_uri">>, unsurt(original), <<>>),
          TmLine(<<"!meta", "timegate_uri">>, unsurt(original), <<>>),
          TmLine(<<"!meta", "timemap_uri">>, unsurt(original), <<>>)>>
        \o [i \in 1..n |->
              TmLine(first_last_str(i - 1) \o <<"memento">>,
                     cdxj_lines[i].surt, cdxj_lines[i].datetime)]
        \o <<EmptyTmLine>>

\* Python's `p in s` on str.
RECURSIVE IsSubstr(_, _)
IsSubstr(p, s) ==
    IF Len(p) > Len(s) THEN FALSE
    ELSE IF SubSeq(s, 1, Len(p)) = p THEN TRUE
    ELSE IsSubstr(p, Tail(s))

\* len(re.findall('rel=.*memento"', line)) != 0
IsMementoLine(line) == line.rel # <<>> /\ line.rel[Len(line.rel)] = "memento"

\* pivot_datetime in line: the line holds .../memento/<datetime>/<uri>
PivotIn(pivot_datetime, line) ==
    IsSubstr(pivot_datetime, line.datetime \o <<Ch.SLASH>> \o line.uri)

\* line.replace('memento"', word + ' memento"')
AddRel(line, word) ==
    IF IsMementoLine(line)
    THEN [line EXCEPT !.rel = SubSeq(@, 1, Len(@) - 1) \o <<word, "memento">>]
    ELSE line

\* len(re.findall('rel=.*(next|prev|first|last)', line)) != 0
HasBoundaryRel(line) ==
    \E i \in 1..Len(line.rel) : line.rel[i] \in {"next", "prev", "first", "last"}

\* mark_pivot_neighbours with idx compared to the bounds of the memento
\* lines only, which start after the four leading lines.
mark_pivot_by_memento_position(tm_lines, pivot_datetime) ==
    LET hits == {idx \in 0..(Len(tm_lines) - 1) :
                   /\ IsMementoLine(tm_lines[idx + 1])
                   /\ PivotIn(pivot_datetime, tm_lines[idx + 1])}
    IN  IF hits = {} THEN tm_lines
        ELSE LET idx == CHOOSE i \in hits : \A j \in hits : i <= j
                 add_both_next_and_prev == idx > 4 /\ idx < Len(tm_lines) - 2
                 with_next ==
                     IF add_both_next_and_prev \/ idx = 0
                     THEN [tm_lines EXCEPT ![idx + 2] = AddRel(@, "next")]
                     ELSE tm_lines
             IN  IF add_both_next_and_prev \/ idx = Len(tm_lines) - 1
                 THEN [with_next EXCEPT ![idx] = AddRel(@, "prev")]
                 ELSE with_next

\* The first loop of get_link_header_abbreviated_timemap: the neighbours
\* of the first memento line holding the pivot get next / prev.
mark_pivot_neighbours(tm_lines, pivot_datetime) ==
    LET hits == {idx \in 0..(Len(tm_lines) - 1) :
                   /\ IsMementoLine(tm_lines[idx + 1])
                   /\ PivotIn(pivot_datetime, tm_lines[idx + 1])}
    IN  IF hits = {} THEN tm_lines
        ELSE LET idx == CHOOSE i \in hits : \A j \in hits : i <= j
                 add_both_next_and_prev == idx > 0 /\ idx < Len(tm_lines) - 1
                 with_next ==
                     IF add_both_next_and_prev \/ idx = 0
                     THEN [tm_lines EXCEPT ![idx + 2] = AddRel(@, "next")]
                     ELSE tm_lines
             IN  IF add_both_next_and_prev \/ idx = Len(tm_lines) - 1
                 THEN [with_next EXCEPT ![idx] = AddRel(@, "prev")]
                 ELSE with_next

\* The second loop: mementos that are not first, last, prev, next or the
\* pivot become ''.
drop_inner_mementos(tm_lines, pivot_datetime) ==
    [i \in 1..Len(tm_lines) |->
        IF ~IsMementoLine(tm_lines[i]) THEN tm_lines[i]
        ELSE IF PivotIn(pivot_datetime, tm_lines[i]) THEN tm_lines[i]
        ELSE IF ~HasBoundaryRel(tm_lines[i]) THEN EmptyTmLine
        ELSE tm_lines[i]]

\* ' '.join(filter(None, tm_lines)), kept as the sequence of joined lines.
NonEmptyLines(tm_lines) == SelectSeq(tm_lines, LAMBDA l : l # EmptyTmLine)

get_link_header_abbreviated_timemap(urir, pivot_datetime, content) ==
    LET s == surt(urir)
        cdxj_lines_with_urir == get_cdxj_lines_with_urir(urir, content)
        tm0 == generate_link_timemap_from_cdxj_lines(cdxj_lines_with_urir, s)
        tm == [i \in 1..Len(tm0) |->
                 IF tm0[i].rel = <<"self", "timemap">>
                 THEN [tm0[i] EXCEPT !.rel = <<"timemap">>] ELSE tm0[i]]
    IN  IF \E i \in 1..Len(tm) : tm[i].rel = <<"first", "last", "memento">>
        THEN NonEmptyLines(tm)
        ELSE NonEmptyLines(
                 drop_inner_mementos(mark_pivot_neighbours(tm, pivot_datetime),
                                     pivot_datetime))

(***************************************************************************)
(* Chunked transfer decoding.                                              *)
(***************************************************************************)

\* The while loop of extract_response_from_chunked_data: Some(retStr), or
\* None where it raises (int(), or the unpacking of too few parts).
RECURSIVE chunk_loop(_, _, _)
chunk_loop(chunk_descriptor, rest, retStr) ==
    IF chunk_descriptor = <<Ch.ZERO>> THEN Some(retStr)
    ELSE LET chunk_dec_from_hex == HexValue(chunk_descriptor)
         IN  IF chunk_dec_from_hex = None THEN None
             ELSE LET retStr2 == retStr \o Slice(rest, 0, chunk_dec_from_hex[1])
                      parts == Split(SliceFrom(rest, chunk_dec_from_hex[1]), Ch.LF, 2)
                  IN  IF Len(parts) < 3 THEN None
                      ELSE LET next_descriptor ==
                                   Strip(Split(parts[2], Ch.SEMI, -1)[1])
                           IN  IF Len(Strip(next_descriptor)) = 0 THEN Some(retStr2)
                               ELSE chunk_loop(next_descriptor, parts[3], retStr2)

extract_response_from_chunked_data(data) ==
    LET decoded == Utf8Decode(data)
    IN  IF decoded = None THEN None
        ELSE LET parts == Split(decoded[1], Ch.LF, 1)
             IN  IF Len(parts) < 2 THEN None
                 ELSE chunk_loop(Strip(Split(parts[1], Ch.SEMI, -1)[1]), parts[2], <<>>)

(***************************************************************************)
(* Responses.  A header value is a text; a Location built by the replay    *)
(* server is a base ("/memento/", or the request URL up to and including   *)
(* its /<datetime>/ segment), a datetime and what follows.                 *)
(***************************************************************************)
HV(text) == [base |-> "", datetime |-> <<>>, urir |-> <<>>, text |-> text]
UriM(base, datetime, urir) ==
    [base |-> base, datetime |-> datetime, urir |-> urir, text |-> ""]

\* A header of a response: its name is prefix + k.
Header(k, v) == [prefix |-> "", k |-> k, v |-> v]

Response(body, status) ==
    [status |-> status, headers |-> <<>>, body |-> body, link |-> None,
     vary |-> None, memento_datetime |-> None, generated_by |-> FALSE]

Message(text) == [kind |-> "message", data |-> <<>>, text |-> text]
Payload(data) == [kind |-> "payload", data |-> data, text |-> ""]

\* flask.redirect(location, code)
redirect(location, code) ==
    [Response(Message("Redirecting..."), code) EXCEPT
        !.headers = <<Header("Location", location)>>]

\* resolve_memento from closest_line on.
resolved_from(urir, closest_line, content) ==
    IF closest_line = None
    THEN [resolved |-> FALSE,
          resp |-> Response(Message("No captures found"), 404)]
    ELSE [resolved |-> TRUE,
          new_datetime |-> closest_line[1].datetime,
          link_header |-> get_link_header_abbreviated_timemap(
                              urir, closest_line[1].datetime, content),
          uri |-> unsurt(closest_line[1].surt)]

\* resolve_memento: a 404 Response, or (new_datetime, link_header, uri).
resolve_memento(urir, datetime, content) ==
    resolved_from(urir,
                  get_cdxj_line_closest_to(
                      datetime, get_cdxj_lines_with_urir(urir, content)),
                  content)

\* show_timemap
show_timemap(urir, format, content) ==
    LET s == surt(urir)
        cdxj_lines_with_urir == get_cdxj_lines_with_urir(urir, content)
        tm == IF format = "link"
              THEN generate_link_timemap_from_cdxj_lines(cdxj_lines_with_urir, s)
              ELSE generate_cdxj_timemap_from_cdxj_lines(cdxj_lines_with_urir, s)
        tm_content_type == IF format = "link" THEN "application/link-format"
                           ELSE "application/cdxj+ors"
    IN  [Response([kind |-> "timemap", data |-> tm, text |-> ""], 200) EXCEPT
            !.headers = <<Header("Content-Type", HV(tm_content_type))>>]

(***************************************************************************)
(* Response reconstruction.                                                *)
(***************************************************************************)

\* What the error handler of the application (all_exception_handler)
\* answers when a handler raises.
ErrorResponse == Response(Message("Error"), 500)

\* k.lower() of the header names of the model.
Lower(k) ==
    CASE k = "Transfer-Encoding" -> "transfer-encoding"
      [] k = "Content-Type" -> "content-type"
      [] k = "Location" -> "location"
      [] k = "Server" -> "server"
      [] OTHER -> k

\* v.strip() of the header values of the model (the text after the colon).
StripValue(v) ==
    CASE v = " chunked" -> "chunked"
      [] v = " text/plain" -> "text/plain"
      [] v = " http://b.x/" -> "http://b.x/"
      [] v = " /p" -> "/p"
      [] v = " nginx" -> "nginx"
      [] OTHER -> v

\* re.search(r'\bchunked\b', v, re.I)
HasChunked(v) == v \in {" chunked", "chunked"}

\* isUri: re.match('^https?://', str, flags=re.IGNORECASE)
isUri(str) == str \in {"http://b.x/"}

SameName(h, prefix, k) == h.prefix = prefix /\ Lower(h.k) = Lower(k)

\* resp.headers.get(k): the first value under the name, or None.
GetHeader(resp, k) ==
    LET at == {i \in 1..Len(resp.headers) : SameName(resp.headers[i], "", k)}
    IN  IF at = {} THEN None
        ELSE Some(resp.headers[CHOOSE i \in at : \A j \in at : i <= j].v)

\* resp.headers[prefix + k] = v: the first header of that name (compared
\* without case) is replaced and the others of that name removed, or the
\* header is added.
SetHeader(resp, prefix, k, v) ==
    LET hs == resp.headers
        at == {i \in 1..Len(hs) : SameName(hs[i], prefix, k)}
        new == [prefix |-> prefix, k |-> k, v |-> v]
    IN  IF at = {} THEN [resp EXCEPT !.headers = Append(hs, new)]
        ELSE LET first == CHOOSE i \in at : \A j \in at : i <= j
                 keep == SelectSeq([i \in 1..Len(hs) |-> i],
                                   LAMBDA i : i = first \/ i \notin at)
             IN  [resp EXCEPT !.headers =
                     [n \in 1..Len(keep) |->
                         IF keep[n] = first THEN new ELSE hs[keep[n]]]]

\* The loop of show_uri over the lines of the stored header block.
RECURSIVE header_loop(_, _, _)
header_loop(h_lines, resp, payload) ==
    IF h_lines = <<>> THEN resp
    ELSE LET k == Head(h_lines).k
             v == Head(h_lines).v
             chunked == Lower(k) = "transfer-encoding" /\ HasChunked(v)
             unchunked_payload == extract_response_from_chunked_data(payload)
         IN  IF chunked /\ unchunked_payload = None
             THEN header_loop(Tail(h_lines), resp, payload)
             ELSE LET resp1 == IF chunked
                               THEN [resp EXCEPT !.body =
                                        Payload(Utf8Encode(unchunked_payload[1]))]
                               ELSE resp
                      prefix == IF Lower(k) \notin {"content-type", "content-encoding",
                                                    "location"}
                                THEN "X-Archive-Orig-" ELSE ""
                  IN  header_loop(Tail(h_lines),
                                  SetHeader(resp1, prefix, k, HV(StripValue(v))),
                                  payload)

\* re.search(r'/\d{14}/', request.url): the datetime typed in the request
\* URL has all its digits (4 here).
HasFullDatetime(request) == Len(request.datetime) = Len(Stamp(1))

\* show_uri from the blobs on (lines 705-765): the stored header block
\* without its status line, the payload, the record and the request.
reconstruct(cdxj_line, h_lines, payload, request) ==
    LET json_object == cdxj_line.json
        status == json_object.status_code
        resp0 == SetHeader(
                     Response(Payload(payload),
                              IF status = None THEN 200 ELSE DecValue(status[1], 0)),
                     "", "Content-Type", HV("text/html; charset=utf-8"))
        resp1 == header_loop(h_lines, resp0, payload)
        is_html == json_object.mime_type = "text/html"
        resp2 == [resp1 EXCEPT !.memento_datetime = Some(cdxj_line.datetime)]
        location == GetHeader(resp2, "Location")
    IN  IF is_html /\ Utf8Decode(resp1.body.data) = None THEN ErrorResponse
        ELSE IF status = None THEN ErrorResponse
        ELSE IF status[1][1] # Ch.ZERO + 3 THEN resp2
        ELSE IF location = None THEN ErrorResponse
        ELSE IF ~isUri(location[1].text) THEN resp2
        ELSE IF ~HasFullDatetime(request) THEN ErrorResponse
        ELSE SetHeader(resp2, "", "Location",
                       [base |-> "request.url", datetime |-> request.datetime,
                        urir |-> <<>>, text |-> location[1].text])

\* generate_no_mementos_interface from lines_with_same_urir on.
no_mementos_response(path, datetime, lines_with_same_urir, content) ==
    IF Len(lines_with_same_urir) = 1
    THEN redirect(UriM("/", lines_with_same_urir[1].datetime,
                       unsurt(lines_with_same_urir[1].surt)), 302)
    ELSE [Response(Message("No captures found"), 404) EXCEPT
             !.link = Some(get_link_header_abbreviated_timemap(
                               path, datetime, content))]

generate_no_mementos_interface(path, datetime, content) ==
    no_mementos_response(path, datetime,
                         get_cdxj_lines_with_urir(path, content), content)

\* What a fetch from IPFS may do.
FetchOutcomes == {"ok", "TimeoutError", "TypeError", "HTTPError", "Exception"}

\* What show_uri returns: the response, whether it is a (text, status)
\* tuple and not a Response object, and the steps taken.
shown_as(resp, tuple, steps) ==
    [resp |-> resp, tuple |-> tuple, log |-> <<"show_uri">> \o steps]

\* The except clauses of the two fetches of show_uri.
fetch_failed(error, steps) ==
    CASE error = "TimeoutError" ->
             shown_as(Response(Message("not found in IPFS :("), 200), FALSE, steps)
      [] error = "TypeError" ->
             shown_as(Response(Message("A Type Error Occurred"), 500), TRUE, steps)
      [] error = "HTTPError" ->
             shown_as(Response(Message("Fetching from IPFS failed"), 503), TRUE, steps)
      [] OTHER ->
             shown_as(Response(Message("An unknown exception occurred"), 500),
                      TRUE, steps)

\* show_uri from cdxj_line on.
show_line(path, datetime, cdxj_line, request, env, content) ==
    IF cdxj_line = None
    THEN shown_as(generate_no_mementos_interface(path, datetime, content), FALSE,
                  <<"check_daemon_is_alive", "binary_search",
                    "generate_no_mementos_interface">>)
    ELSE IF env.payload_fetch # "ok"
    THEN fetch_failed(env.payload_fetch,
                      <<"check_daemon_is_alive", "binary_search", "cat payload">>)
    ELSE IF env.header_fetch # "ok"
    THEN fetch_failed(env.header_fetch,
                      <<"check_daemon_is_alive", "binary_search", "cat payload",
                        "cat header">>)
    ELSE shown_as(reconstruct(cdxj_line[1], env.header, env.payload, request), FALSE,
                  <<"check_daemon_is_alive", "binary_search", "cat payload",
                    "cat header", "reconstruct">>)

\* show_uri.  env is what the request meets outside the program: whether the
\* IPFS daemon answers, how the two fetches end and the blobs they return.
show_uri(path, datetime, request, env, content) ==
    IF ~env.daemon_alive
    THEN shown_as(Response(Message("IPFS daemon not running"), 503), FALSE,
                  <<"check_daemon_is_alive">>)
    ELSE show_line(path, datetime,
                   get_cdxj_line_binarySearch(KeyStamp(surt(path), datetime),
                                              content, FALSE, FALSE),
                   request, env, content)

\* util.pad_digits14(datetime, validate=True): the year (2 digits here, 4 in
\* the program) is required, a missing month (1 digit here) becomes 1, a
\* missing rest 0; Some(padded), or None where it raises ValueError (no
\* year, or a month 0).
pad_digits14(datetime) ==
    LET Y == Slice(datetime, 0, 2)
        m == IF Len(datetime) >= 3 THEN Slice(datetime, 2, 3) ELSE <<Ch.ZERO + 1>>
        S == IF Len(datetime) >= 4 THEN Slice(datetime, 3, 4) ELSE <<Ch.ZERO>>
    IN  IF Len(datetime) < 2 \/ m = <<Ch.ZERO>> THEN None
        ELSE Some(Y \o m \o S)

\* show_memento from `resp = show_uri(uri, new_datetime)` on: a tuple has no
\* headers, and what show_uri raised stays raised.
with_link(shown, link_header) ==
    [resp |-> IF shown.tuple \/ shown.resp = ErrorResponse
              THEN ErrorResponse
              ELSE [shown.resp EXCEPT !.link = Some(link_header)],
     log |-> <<"pad_digits14", "resolve_memento">> \o shown.log]

\* show_memento without the comparison of the datetimes: what resolves is
\* replayed at once.
memento_no_redirect(urir, typed, datetime, resolved_memento, env, content) ==
    IF ~resolved_memento.resolved
    THEN [resp |-> resolved_memento.resp,
          log |-> <<"pad_digits14", "resolve_memento">>]
    ELSE with_link(show_uri(resolved_memento.uri, resolved_memento.new_datetime,
                            [route |-> "memento", datetime |-> typed, urir |-> urir],
                            env, content),
                   resolved_memento.link_header)

\* show_memento from resolved_memento on; typed is the datetime of the
\* request URL, datetime the padded one.
memento(urir, typed, datetime, resolved_memento, env, content) ==
    IF ~resolved_memento.resolved
    THEN [resp |-> resolved_memento.resp,
          log |-> <<"pad_digits14", "resolve_memento">>]
    ELSE IF resolved_memento.new_datetime # datetime
    THEN [resp |-> [redirect(UriM("/memento/", resolved_memento.new_datetime, urir),
                             302)
                       EXCEPT !.link = Some(resolved_memento.link_header)],
          log |-> <<"pad_digits14", "resolve_memento", "redirect">>]
    ELSE with_link(show_uri(resolved_memento.uri, resolved_memento.new_datetime,
                            [route |-> "memento", datetime |-> typed, urir |-> urir],
                            env, content),
                   resolved_memento.link_header)

\* show_memento from the padded datetime on.
show_padded(urir, typed, padded, env, content) ==
    IF padded = None
    THEN [resp |-> Response(Message("Expected a 4-14 digits valid datetime"), 400),
          log |-> <<"pad_digits14">>]
    ELSE memento(urir, typed, padded[1],
                 resolve_memento(urir, padded[1], content), env, content)

\* show_memento: GET /memento/<datetime>/<urir>
show_memento(urir, datetime, env, content) ==
    show_padded(urir, datetime, pad_digits14(datetime), env, content)

\* query_timegate from resolved_memento on.
timegate(urir, resolved_memento) ==
    IF ~resolved_memento.resolved
    THEN [resp |-> resolved_memento.resp,
          log |-> <<"is_rfc1123_compliant", "resolve_memento">>]
    ELSE [resp |-> [redirect(UriM("/memento/", resolved_memento.new_datetime, urir),
                             302)
                       EXCEPT !.link = Some(resolved_memento.link_header),
                              !.vary = Some("Accept-Datetime")],
          log |-> <<"is_rfc1123_compliant", "resolve_memento", "redirect">>]

\* query_timegate without the check of the Accept-Datetime header.
timegate_at_unchecked(urir, datetime14, content) ==
    timegate(urir, resolve_memento(urir, datetime14, content))

\* query_timegate from datetime14 on.
timegate_at(urir, datetime14, content) ==
    IF datetime14 = <<>>
    THEN [resp |-> Response(Message("Bad Request"), 400),
          log |-> <<"is_rfc1123_compliant">>]
    ELSE timegate(urir, resolve_memento(urir, datetime14, content))

\* query_timegate: GET /timegate/<urir>.  adt is the Accept-Datetime header:
\* None when absent, Some of the datetime it names, or Some of no datetime
\* when it is not RFC 1123 compliant; now is the clock.
query_timegate(urir, adt, now, content) ==
    timegate_at(urir, IF adt = None THEN now ELSE adt[1], content)

\* show_mementos_for_urirs_sans_js: GET /memento/*/?url=<urir>.  url is the
\* query argument: None when absent.
show_mementos_for_urirs_sans_js(url) ==
    IF url = None \/ Strip(url[1]) = <<>>
    THEN [resp |-> Response(Message("Searching for nothing is not allowed!"), 400),
          log |-> <<"request.args.get">>]
    ELSE [resp |-> redirect(UriM("/memento/*/", <<>>, url[1]), 301),
          log |-> <<"request.args.get", "redirect">>]

(***************************************************************************)
(* The state machine.                                                      *)
(***************************************************************************)
NoCall == [op |-> "none"]

\* The external indexer adds a capture, keeping the data lines sorted.
RECURSIVE InsertSorted(_, _)
InsertSorted(lines, line) ==
    IF lines = <<>> THEN <<line>>
    ELSE IF IsMeta(Head(lines))
              \/ (IsData(Head(lines)) /\ ~LineLess(line, Head(lines)))
         THEN <<Head(lines)>> \o InsertSorted(Tail(lines), line)
         ELSE <<line>> \o lines

NumData(lines) == Cardinality({i \in 1..Len(lines) : IsData(lines[i])})

Init ==
    /\ \E m \in 0..MaxMeta, nl \in BOOLEAN :
         cdxj = [i \in 1..m |-> MetaLine(i)] \o (IF nl THEN <<BlankLine>> ELSE <<>>)
    /\ call = NoCall
    /\ ret = None
    /\ log = <<>>

\* A handler runs when no other call of the model is in progress; Return
\* hands its result back.
Idle == call = NoCall

Return ==
    /\ ~Idle
    /\ call' = NoCall
    /\ ret' = None
    /\ log' = <<>>
    /\ UNCHANGED cdxj

\* The captures the indexer may add, and how many, differ between the
\* specifications below.
IndexerAdds(lines, max, duplicates) ==
    /\ Idle
    /\ NumData(cdxj) < max
    /\ \E line \in lines :
         /\ duplicates \/ \A i \in 1..Len(cdxj) :
                              ~(cdxj[i].surt = line.surt /\ cdxj[i].datetime = line.datetime)
         /\ cdxj' = InsertSorted(cdxj, line)
    /\ UNCHANGED <<call, ret, log>>

\* Captures of the first URI-R at every datetime and of the other URI-Rs at
\* the first datetime, any of them more than once.
Indexer ==
    IndexerAdds({DataLine(surt(UriPool(1)), dt, NoJson) : dt \in Stamps}
                    \cup {DataLine(surt(u), Stamp(1), NoJson) : u \in Urirs},
                MaxLines, TRUE)

BinarySearch ==
    /\ Idle
    /\ \E u \in AllUrirs, dt \in Targets, returnIndex \in BOOLEAN :
         /\ call' = [op |-> "binary_search", surt |-> surt(u), datetime |-> dt,
                     returnIndex |-> returnIndex]
         /\ ret' = binary_search(cdxj, KeyStamp(surt(u), dt), returnIndex, FALSE)
    /\ UNCHANGED <<cdxj, log>>

GetCdxjLinesWithUrir ==
    /\ Idle
    /\ \E u \in AllUrirs :
         /\ call' = [op |-> "get_cdxj_lines_with_urir", urir |-> u]
         /\ ret' = get_cdxj_lines_with_urir(u, cdxj)
    /\ UNCHANGED <<cdxj, log>>

ResolveMemento ==
    /\ Idle
    /\ \E u \in AllUrirs, dt \in Targets :
         /\ call' = [op |-> "resolve_memento", urir |-> u, datetime |-> dt]
         /\ ret' = resolve_memento(u, dt, cdxj)
    /\ UNCHANGED <<cdxj, log>>

Next == Indexer \/ BinarySearch \/ GetCdxjLinesWithUrir \/ ResolveMemento \/ Return

Spec == Init /\ [][Next]_vars

(***************************************************************************)
(* The TimeMap builder, over indexes with up to MaxTmStamps captures of    *)
(* one URI-R and captures of another beside them.                          *)
(***************************************************************************)
TmStamps == {Stamp(i) : i \in 1..MaxTmStamps}

IndexerTm ==
    IndexerAdds({DataLine(surt(UriPool(1)), dt, NoJson) : dt \in TmStamps}
                    \cup {DataLine(surt(UriPool(2)), Stamp(1), NoJson)},
                MaxTmStamps + 1, FALSE)

ShowTimemap ==
    /\ Idle
    /\ \E u \in {UriPool(i) : i \in 1..3}, format \in {"link", "cdxj"} :
         /\ call' = [op |-> "show_timemap", urir |-> u, format |-> format]
         /\ ret' = show_timemap(u, format, cdxj)
    /\ UNCHANGED <<cdxj, log>>

LinkHeader ==
    /\ Idle
    /\ \E u \in {UriPool(i) : i \in 1..3}, pivot \in TmStamps :
         /\ call' = [op |-> "get_link_header_abbreviated_timemap",
                     urir |-> u, pivot_datetime |-> pivot]
         /\ ret' = get_link_header_abbreviated_timemap(u, pivot, cdxj)
    /\ UNCHANGED <<cdxj, log>>

NextTm == IndexerTm \/ ShowTimemap \/ LinkHeader \/ Return

SpecTimeMap == Init /\ [][NextTm]_vars

(***************************************************************************)
(* The chunked decoder alone, on bodies encoded as chunk streams.          *)
(***************************************************************************)

\* Bodies are UTF-8 texts of a letter, a line feed, a digit and e-acute
\* (U+00E9, two bytes in UTF-8).
BodyChars == {Ch.A, Ch.LF, Ch.ZERO, 233}

RECURSIVE SeqsUpTo(_, _)
SeqsUpTo(S, n) ==
    IF n = 0 THEN {<<>>}
    ELSE LET shorter == SeqsUpTo(S, n - 1)
         IN  shorter \cup {<<x>> \o q : x \in S, q \in {r \in shorter : Len(r) = n - 1}}

Bodies == {Utf8Encode(str) : str \in SeqsUpTo(BodyChars, MaxBody)}

\* The ways to cut a body into non-empty chunks: the sets of cut positions.
RECURSIVE ChunksAt(_, _, _)
ChunksAt(body, cuts, from) ==
    IF from >= Len(body) THEN <<>>
    ELSE LET later == {c \in cuts : c > from}
             to == IF later = {} THEN Len(body)
                   ELSE CHOOSE c \in later : \A d \in later : c <= d
         IN  <<Slice(body, from, to)>> \o ChunksAt(body, cuts, to)

HexDigitChar(n) == IF n < 10 THEN Ch.ZERO + n ELSE Ch.A + (n - 10)

RECURSIVE HexDigits(_)
HexDigits(n) ==
    IF n < 16 THEN <<HexDigitChar(n)>>
    ELSE HexDigits(n \div 16) \o <<HexDigitChar(n % 16)>>

\* The chunk stream of RFC 7230: each chunk is its size in hex, a line
\* terminator, its bytes and a line terminator; a zero-size chunk ends it.
RECURSIVE EncodeChunks(_, _)
EncodeChunks(chunks, eol) ==
    IF chunks = <<>> THEN <<Ch.ZERO>> \o eol \o eol
    ELSE HexDigits(Len(Head(chunks))) \o eol \o Head(chunks) \o eol
             \o EncodeChunks(Tail(chunks), eol)

ExtractChunked ==
    /\ Idle
    /\ \E body \in Bodies, eol \in {<<Ch.CR, Ch.LF>>, <<Ch.LF>>} :
         \E cuts \in SUBSET (1..(Len(body) - 1)) :
            /\ call' = [op |-> "extract_response_from_chunked_data",
                        body |-> body, chunks |-> ChunksAt(body, cuts, 0),
                        data |-> EncodeChunks(ChunksAt(body, cuts, 0), eol)]
            /\ ret' = extract_response_from_chunked_data(
                          EncodeChunks(ChunksAt(body, cuts, 0), eol))
    /\ UNCHANGED <<cdxj, log>>

NextChunked == ExtractChunked \/ Return

SpecChunked == Init /\ [][NextChunked]_vars

(***************************************************************************)
(* The Memento and TimeGate handlers, over indexes of captures of one      *)
(* URI-R whose records differ in status code and MIME type, with the       *)
(* IPFS daemon and the stored blobs chosen at each request.                *)
(***************************************************************************)
Jsons == {[status_code |-> st, mime_type |-> mime] :
            st \in {None, Some(DecDigits(200)), Some(DecDigits(302))},
            mime \in {"text/html", "text/plain"}}

\* The lines of stored header blocks, after the status line.
HeaderLines ==
    {[k |-> "Transfer-Encoding", v |-> " chunked"],
     [k |-> "Content-Type", v |-> " text/plain"],
     [k |-> "Location", v |-> " http://b.x/"],
     [k |-> "location", v |-> " /p"],
     [k |-> "Server", v |-> " nginx"]}

HeaderBlocks == SeqsUpTo(HeaderLines, MaxHeaders)

\* Stored payloads.  A chunk stream of the body "a":
ChunkedA == <<49, 13, 10, 97, 13, 10, 48, 13, 10, 13, 10>>
\* a chunk stream of the body e-acute, 2 bytes of UTF-8:
ChunkedEAcute == <<50, 13, 10, 195, 169, 13, 10, 48, 13, 10, 13, 10>>
\* no chunk stream at all:
NotChunked == <<122, 122>>
\* a chunk and no zero-size chunk after it:
NoTerminator == <<49, 13, 10, 97, 13, 10>>
\* a chunk and then an empty size line:
EmptySizeLine == <<49, 13, 10, 97, 13, 10, 13, 10>>
\* a chunk size larger than the data that is left:
Oversize == <<53, 13, 10, 97, 13, 10, 48, 13, 10, 13, 10>>
\* a size line that is no hexadecimal number:
NonHex == <<103, 13, 10, 97, 13, 10, 48, 13, 10, 13, 10>>

MalformedPayloads == {NotChunked, NoTerminator, EmptySizeLine, Oversize, NonHex}

Payloads == {ChunkedA, ChunkedEAcute} \cup MalformedPayloads

DeadEnv == [daemon_alive |-> FALSE, payload_fetch |-> "ok", header_fetch |-> "ok",
            header |-> <<>>, payload |-> <<>>]

Envs ==
    {DeadEnv}
    \cup {[DeadEnv EXCEPT !.daemon_alive = TRUE, !.payload_fetch = e] :
             e \in FetchOutcomes \ {"ok"}}
    \cup {[DeadEnv EXCEPT !.daemon_alive = TRUE, !.header_fetch = e] :
             e \in FetchOutcomes \ {"ok"}}
    \cup {[DeadEnv EXCEPT !.daemon_alive = TRUE, !.header = h, !.payload = p] :
             h \in HeaderBlocks, p \in Payloads}

\* The datetimes typed in /memento/<datetime>/: 2, 20, 2005, 2011 and the
\* datetimes of the captures.
TypedDatetimes ==
    {<<Ch.ZERO + 2>>, <<Ch.ZERO + 2, Ch.ZERO>>, DecDigits(2005), DecDigits(2011),
     Stamp(1), Stamp(2)}

InitReplay ==
    /\ cdxj = <<MetaLine(1), BlankLine>>
    /\ call = NoCall
    /\ ret = None
    /\ log = <<>>

IndexerReplay ==
    IndexerAdds({DataLine(surt(UriPool(1)), Stamp(1), j) : j \in Jsons}
                    \cup {DataLine(surt(UriPool(1)), Stamp(2),
                                   [status_code |-> Some(DecDigits(200)),
                                    mime_type |-> "text/plain"])},
                2, FALSE)

\* The blobs and the daemon matter to a request only when show_uri runs.
Exact(resolved_memento, datetime) ==
    resolved_memento.resolved /\ resolved_memento.new_datetime = datetime

RunsShowUriAt(urir, padded) ==
    padded # None /\ Exact(resolve_memento(urir, padded[1], cdxj), padded[1])

RunsShowUri(urir, datetime) == RunsShowUriAt(urir, pad_digits14(datetime))

\* A handler answers the request c with r.
Answer(c, r) ==
    /\ call' = c
    /\ ret' = r.resp
    /\ log' = r.log

ShowMemento ==
    /\ Idle
    /\ \E u \in {UriPool(1), UriPool(3)}, dt \in TypedDatetimes, env \in Envs :
         /\ RunsShowUri(u, dt) \/ env = DeadEnv
         /\ Answer([op |-> "show_memento", urir |-> u, datetime |-> dt, env |-> env],
                   show_memento(u, dt, env, cdxj))
    /\ UNCHANGED cdxj

QueryTimegate ==
    /\ Idle
    /\ \E u \in {UriPool(1), UriPool(3)},
          adt \in {None, Some(<<>>), Some(Stamp(1)), Some(DecDigits(2011))} :
         Answer([op |-> "query_timegate", urir |-> u, adt |-> adt,
                 now |-> DecDigits(2095)],
                query_timegate(u, adt, DecDigits(2095), cdxj))
    /\ UNCHANGED cdxj

\* The url arguments of a search: none, empty, blank, a URI-R.
SearchUrls == {None, Some(<<>>), Some(<<Ch.SP>>), Some(UriPool(1))}

ShowMementosSansJs ==
    /\ Idle
    /\ \E url \in SearchUrls :
         Answer([op |-> "show_mementos_for_urirs_sans_js", url |-> url],
                show_mementos_for_urirs_sans_js(url))
    /\ UNCHANGED cdxj

\* The response is the redirect of show_memento or query_timegate to a
\* URI-M of the replay server.
IsUriMRedirect(resp) ==
    /\ resp.status = 302
    /\ GetHeader(resp, "Location") # None
    /\ GetHeader(resp, "Location")[1].base = "/memento/"

\* What a request that follows a redirect meets: no daemon, a fetch that
\* fails, or blobs without stored header lines.
FollowEnvs == {env \in Envs : env.header = <<>> /\ env.payload \in {<<>>, ChunkedA}}

\* The client follows that redirect: a direct request for the URI-M of the
\* Location header.
FollowsRedirect ==
    /\ call.op \in {"show_memento", "query_timegate"}
    /\ IsUriMRedirect(ret)
    /\ \E env \in FollowEnvs :
         Answer([op |-> "show_memento",
                 urir |-> GetHeader(ret, "Location")[1].urir,
                 datetime |-> GetHeader(ret, "Location")[1].datetime,
                 env |-> env, follows |-> call.op],
                show_memento(GetHeader(ret, "Location")[1].urir,
                             GetHeader(ret, "Location")[1].datetime, env, cdxj))
    /\ UNCHANGED cdxj

NextReplay ==
    \/ IndexerReplay
    \/ ShowMemento
    \/ QueryTimegate
    \/ ShowMementosSansJs
    \/ FollowsRedirect
    \/ Return

SpecReplay == InitReplay /\ [][NextReplay]_vars

(***************************************************************************)
(* One call of get_cdxj_lines_with_urir, step by step, with the indexer    *)
(* writing the index file at any moment.  The call reads the file in       *)
(* get_cdxj_line_binarySearch and again in get_web_archive_index.          *)
(***************************************************************************)
\* The indexer adds a capture, whatever a request is doing.
IndexerWrites ==
    /\ NumData(cdxj) < MaxLines
    /\ \E line \in {DataLine(surt(UriPool(1)), dt, NoJson) : dt \in Stamps}
                       \cup {DataLine(surt(u), Stamp(1), NoJson) : u \in Urirs} :
         cdxj' = InsertSorted(cdxj, line)
    /\ UNCHANGED <<call, ret, log>>

\* First read: the binary search for the key.
SearchesPivot ==
    /\ Idle
    /\ \E u \in AllUrirs :
         /\ call' = [op |-> "get_cdxj_line_binarySearch", urir |-> u,
                     cdxj_line_index |->
                         get_cdxj_line_binarySearch(surt(u), cdxj, TRUE, TRUE)]
         /\ log' = <<"get_cdxj_line_binarySearch">>
    /\ UNCHANGED <<cdxj, ret>>

\* Second read: the pivot and the scans, at the index found by the search.
CollectsLines ==
    /\ call.op = "get_cdxj_line_binarySearch"
    /\ call' = [call EXCEPT !.op = "get_cdxj_lines_with_urir"]
    /\ ret' = lines_at(surt(call.urir), call.cdxj_line_index, cdxj)
    /\ log' = IF call.cdxj_line_index = None THEN log
              ELSE Append(log, "get_web_archive_index")
    /\ UNCHANGED cdxj

ReturnsLines ==
    /\ call.op = "get_cdxj_lines_with_urir"
    /\ call' = NoCall
    /\ ret' = None
    /\ log' = <<>>
    /\ UNCHANGED cdxj

NextInterleaved == IndexerWrites \/ SearchesPivot \/ CollectsLines \/ ReturnsLines

SpecInterleaved == Init /\ [][NextInterleaved]_vars

(***************************************************************************)
(* Properties.                                                             *)
(***************************************************************************)
MetaCount == Cardinality({i \in 1..Len(cdxj) : IsMeta(cdxj[i])})

\* The positions (1-based) of the data lines of the index with key s.
LinesOfKey(s) == {i \in 1..Len(cdxj) : IsData(cdxj[i]) /\ cdxj[i].surt = s}

\* The captures of key s in index order.
RecordsOfKey(s) == SelectSeq(cdxj, LAMBDA l : IsData(l) /\ l.surt = s)

Count(seq, x) == Cardinality({j \in 1..Len(seq) : seq[j] = x})

\* The index the model builds is one the claims are about: metadata lines
\* first, then the data lines in ascending order of "key timestamp".
IndexWellFormed ==
    \A i \in 1..Len(cdxj), j \in 1..Len(cdxj) :
        i < j => /\ IsMeta(cdxj[j]) => IsMeta(cdxj[i])
                 /\ IsBlank(cdxj[i]) => IsBlank(cdxj[j])
                 /\ (IsData(cdxj[i]) /\ IsData(cdxj[j])) => ~LineLess(cdxj[j], cdxj[i])

\* C1: binary_search with a "key timestamp" needle returns a line of the
\* index whose key and timestamp are the needle's when there is one (and,
\* asked for the index, the absolute index of such a line), and None when
\* no data line has that key and timestamp.
C1_BinarySearchExact ==
    call.op = "binary_search" =>
        LET hits == {i \in LinesOfKey(call.surt) : cdxj[i].datetime = call.datetime}
        IN  IF hits = {} THEN ret = None
            ELSE /\ ret # None
                 /\ IF call.returnIndex THEN ret[1] + 1 \in hits
                    ELSE /\ \E i \in hits : ret[1] = cdxj[i]
                         /\ ret[1].surt = call.surt
                         /\ ret[1].datetime = call.datetime

C1_Witness ==
    /\ call.op = "binary_search"
    /\ ~call.returnIndex
    /\ ret # None
    /\ MetaCount >= 1
    /\ NumData(cdxj) >= 2

\* C2: get_cdxj_lines_with_urir returns the data lines whose key is the
\* queried key, each as often as it is in the index, and nothing else.
C2_LinesWithUrirExact ==
    call.op = "get_cdxj_lines_with_urir" =>
        LET s == surt(call.urir)
        IN  /\ Len(ret) = Cardinality(LinesOfKey(s))
            /\ \A j \in 1..Len(ret) : IsData(ret[j]) /\ ret[j].surt = s
            /\ \A i \in LinesOfKey(s) :
                   Count(ret, cdxj[i]) = Cardinality({k \in LinesOfKey(s) : cdxj[k] = cdxj[i]})

C2_Witness ==
    /\ call.op = "get_cdxj_lines_with_urir"
    /\ Len(ret) >= 2
    /\ MetaCount >= 1
    /\ NumData(cdxj) > Len(ret)

\* C3: for a key with captures, the resolver returns a capture of the key
\* whose timestamp is nearest to the target as integers, the earlier one
\* of two equally near; with captures at 2010, 2020 and 2030 the targets
\* 2021 and 2025 both resolve to 2020.
C3_ClosestEarliestTie ==
    (call.op = "resolve_memento" /\ LinesOfKey(surt(call.urir)) # {}) =>
        LET ts == {DecValue(cdxj[i].datetime, 0) : i \in LinesOfKey(surt(call.urir))}
            t == DecValue(call.datetime, 0)
        IN  /\ ret.resolved
            /\ LET r == DecValue(ret.new_datetime, 0)
               IN  /\ r \in ts
                   /\ \A x \in ts : Abs(r - t) <= Abs(x - t)
                   /\ \A x \in ts : Abs(r - t) = Abs(x - t) => r <= x
                   /\ (ts = {2010, 2020, 2030} /\ t \in {2021, 2025}) => r = 2020

C3_Witness ==
    /\ call.op = "resolve_memento"
    /\ {DecValue(cdxj[i].datetime, 0) : i \in LinesOfKey(surt(call.urir))}
           = {2010, 2020, 2030}
    /\ DecValue(call.datetime, 0) = 2025
    /\ ret.resolved
    /\ DecValue(ret.new_datetime, 0) = 2020

\* The rel words of the memento lines of a TimeMap, in order.
MementoRels(tm) ==
    LET ms == SelectSeq(tm, IsMementoLine) IN [i \in 1..Len(ms) |-> ms[i].rel]

\* C5: in both TimeMap formats a single capture is "first last memento";
\* of several the first is "first memento", the last "last memento" and
\* the others "memento"; and both builders mark the same captures.
C5_TimeMapMarks ==
    call.op = "show_timemap" =>
        LET s == surt(call.urir)
            rs == RecordsOfKey(s)
            n == Len(rs)
            ms == SelectSeq(ret.body.data, IsMementoLine)
            expected(i) == IF n = 1 THEN <<"first", "last", "memento">>
                           ELSE IF i = 1 THEN <<"first", "memento">>
                           ELSE IF i = n THEN <<"last", "memento">>
                           ELSE <<"memento">>
        IN  /\ Len(ms) = n
            /\ \A i \in 1..n : ms[i].rel = expected(i) /\ ms[i].datetime = rs[i].datetime
            /\ MementoRels(generate_link_timemap_from_cdxj_lines(rs, s))
                   = MementoRels(generate_cdxj_timemap_from_cdxj_lines(rs, s))

C5_Witness ==
    /\ call.op = "show_timemap"
    /\ call.format = "cdxj"
    /\ MementoRels(ret.body.data)
           = <<(<<"first", "memento">>), (<<"memento">>), (<<"last", "memento">>)>>

ToSet(seq) == {seq[i] : i \in 1..Len(seq)}

\* C6: for N >= 2 captures and the pivot the timestamp of the capture at
\* position p, the abbreviated Link header holds the mementos at positions
\* 1, p-1, p, p+1 and N that exist and no other; the one at p-1 is also
\* "prev", the one at p+1 also "next", and no other gains prev or next.
C6_AbbreviatedTimeMap ==
    call.op = "get_link_header_abbreviated_timemap" =>
        LET rs == RecordsOfKey(surt(call.urir))
            n == Len(rs)
            ps == {i \in 1..n : rs[i].datetime = call.pivot_datetime}
        IN  (n >= 2 /\ ps # {}) =>
                LET p == CHOOSE i \in ps : TRUE
                    keep == {1, p - 1, p, p + 1, n} \cap (1..n)
                    kept == SelectSeq([i \in 1..n |-> i], LAMBDA i : i \in keep)
                    ms == SelectSeq(ret, IsMementoLine)
                    rel(i) == (IF i = 1 THEN {"first"} ELSE {})
                                  \cup (IF i = n THEN {"last"} ELSE {})
                                  \cup (IF i = p - 1 THEN {"prev"} ELSE {})
                                  \cup (IF i = p + 1 THEN {"next"} ELSE {})
                                  \cup {"memento"}
                IN  /\ Len(ms) = Len(kept)
                    /\ \A k \in 1..Len(kept) :
                           /\ ms[k].datetime = rs[kept[k]].datetime
                           /\ ToSet(ms[k].rel) = rel(kept[k])

C6_Witness ==
    /\ call.op = "get_link_header_abbreviated_timemap"
    /\ Len(RecordsOfKey(surt(call.urir))) = 7
    /\ call.pivot_datetime = Stamp(4)
    /\ LET ms == SelectSeq(ret, IsMementoLine)
       IN  [k \in 1..Len(ms) |-> ms[k].datetime]
               = <<Stamp(1), Stamp(3), Stamp(4), Stamp(5), Stamp(7)>>

IsAscii(bytes) == \A i \in 1..Len(bytes) : bytes[i] < 128

\* C7: a body cut into chunks, encoded as a chunk stream and decoded by
\* extract_response_from_chunked_data, is the body again.
C7_ChunkedRoundTrip ==
    call.op = "extract_response_from_chunked_data" =>
        ret # None /\ Utf8Encode(ret[1]) = call.body

\* The round trip does hold for bodies of one-byte characters.
ChunkedRoundTripAscii ==
    (call.op = "extract_response_from_chunked_data" /\ IsAscii(call.body)) =>
        ret # None /\ Utf8Encode(ret[1]) = call.body

(***************************************************************************)
(* Replay.                                                                 *)
(***************************************************************************)
Last(s) == s[Len(s)]
Steps == {log[i] : i \in 1..Len(log)}

\* The datetime a request asks for: the padded datetime of a direct request,
\* the Accept-Datetime (or the clock) of a TimeGate request; None when the
\* request is refused for its datetime.
Requested ==
    IF call.op = "show_memento" THEN pad_digits14(call.datetime)
    ELSE IF call.adt = None THEN Some(call.now)
    ELSE IF call.adt[1] = <<>> THEN None
    ELSE call.adt

IsReplayCall == call.op \in {"show_memento", "query_timegate"}

\* The response redirects to /memento/<datetime>/<urir> and has no replayed
\* body.
RedirectsTo(resp, datetime, urir) ==
    /\ resp.status = 302
    /\ GetHeader(resp, "Location") = Some(UriM("/memento/", datetime, urir))
    /\ resp.body.kind # "payload"

\* C4: a replayed body is served only to a direct request whose datetime is
\* that of the record it resolves to; a direct request that resolves to a
\* record of another datetime, and every TimeGate request that resolves, is
\* answered by a 302 to /memento/<resolved datetime>/<urir> and show_uri does
\* not run; no response has a replayed body and that redirect.
C4_BodyOnlyForExactRequest ==
    (IsReplayCall /\ Requested # None) =>
        LET r == resolve_memento(call.urir, Requested[1], cdxj)
            exact == /\ call.op = "show_memento"
                     /\ r.resolved
                     /\ r.new_datetime = Requested[1]
        IN  /\ (r.resolved /\ ~exact) =>
                  /\ RedirectsTo(ret, r.new_datetime, call.urir)
                  /\ "show_uri" \notin Steps
            /\ ("reconstruct" \in Steps \/ ret.body.kind = "payload") => exact
            /\ ret.body.kind = "payload" =>
                  \A dt \in Stamps \cup TypedDatetimes :
                      GetHeader(ret, "Location")
                          # Some(UriM("/memento/", dt, call.urir))

C4_Witness ==
    /\ call.op = "show_memento"
    /\ Requested # None
    /\ resolve_memento(call.urir, Requested[1], cdxj).resolved
    /\ resolve_memento(call.urir, Requested[1], cdxj).new_datetime # Requested[1]
    /\ ret.status = 302

\* A direct request that is replayed: show_uri ran up to the reconstruction
\* of the response from the two blobs.
Reconstructs == call.op = "show_memento" /\ "reconstruct" \in Steps

\* The record a direct request replays.
ReplayedRecord ==
    CHOOSE line \in {cdxj[i] : i \in 1..Len(cdxj)} :
        IsData(line) /\ line.datetime = Requested[1]

DeclaresChunked(h_lines) ==
    \E i \in 1..Len(h_lines) :
        Lower(h_lines[i].k) = "transfer-encoding" /\ HasChunked(h_lines[i].v)

PlainOk(record) ==
    record.json = [status_code |-> Some(DecDigits(200)), mime_type |-> "text/plain"]

\* C8: the stored headers declare chunked transfer encoding and the payload
\* is no well-formed chunk stream: the response has the stored payload as its
\* body and the request does not fail.  (Stated for records of status 200
\* that are not HTML, which nothing else of the reconstruction touches.)
C8_MalformedChunksKeepPayload ==
    (/\ Reconstructs
     /\ PlainOk(ReplayedRecord)
     /\ DeclaresChunked(call.env.header)
     /\ call.env.payload \in MalformedPayloads)
        => /\ ret.status = 200
           /\ ret.body = Payload(call.env.payload)

\* The response carries the stored header line under the name the rule
\* gives it.
Carries(resp, line) ==
    \E j \in 1..Len(resp.headers) :
        /\ resp.headers[j].k = line.k
        /\ resp.headers[j].prefix =
              (IF Lower(line.k) \in {"content-type", "content-encoding", "location"}
               THEN "" ELSE "X-Archive-Orig-")
        /\ resp.headers[j].v = HV(StripValue(line.v))

DistinctNames(h_lines) ==
    \A i, j \in 1..Len(h_lines) :
        Lower(h_lines[i].k) = Lower(h_lines[j].k) => i = j

\* C9: every line of the stored header block is carried by the response,
\* under its own name when that is content-type, content-encoding or location
\* and under X-Archive-Orig-<name> otherwise, a Transfer-Encoding line
\* included, whether the payload could be decoded or not.  (Stated for
\* records of status 200 that are not HTML and for header blocks that name no
\* header twice.)
C9_EveryHeaderCarried ==
    (/\ Reconstructs
     /\ PlainOk(ReplayedRecord)
     /\ DistinctNames(call.env.header))
        => \A i \in 1..Len(call.env.header) : Carries(ret, call.env.header[i])

\* C9 holds where the payload decodes, or no chunked encoding is declared.
HeadersCarriedWhenDecoded ==
    (/\ Reconstructs
     /\ PlainOk(ReplayedRecord)
     /\ DistinctNames(call.env.header)
     /\ DeclaresChunked(call.env.header) =>
            extract_response_from_chunked_data(call.env.payload) # None)
        => \A i \in 1..Len(call.env.header) : Carries(ret, call.env.header[i])

\* C10: a record without status_code is replayed with status 200.
C10_DefaultStatus ==
    (Reconstructs /\ ReplayedRecord.json.status_code = None)
        => ret.status = 200

\* C10, the other half: a record with a status_code that is no redirection
\* is replayed with that status.
StatusOfRecord ==
    (/\ Reconstructs
     /\ ReplayedRecord.json.status_code # None
     /\ ReplayedRecord.json.status_code[1][1] # Ch.ZERO + 3)
        => ret.status = DecValue(ReplayedRecord.json.status_code[1], 0)

\* A direct request that fetched the payload blob and then failed to fetch
\* the header blob.
HeaderFetchFailed ==
    /\ call.op = "show_memento"
    /\ Last(log) = "cat header"
    /\ call.env.payload_fetch = "ok"
    /\ call.env.header_fetch # "ok"

\* C11: the payload blob is fetched and the header blob is not found: the
\* payload is served, with no stored header, and the response has the marker
\* X-Headers-Generated-By.
C11_SynthesizedHeadersMarked ==
    HeaderFetchFailed =>
        /\ ret.body = Payload(call.env.payload)
        /\ ret.generated_by

\* No response of a replay handler has the marker X-Headers-Generated-By.
MarkerNeverSet == IsReplayCall => ~ret.generated_by

\* A direct request with a valid datetime that meets no IPFS daemon.
DaemonDown ==
    /\ call.op = "show_memento"
    /\ Requested # None
    /\ ~call.env.daemon_alive

\* C12: with the IPFS daemon unreachable a memento request is answered with
\* status 503, and neither the index search nor the resolution to the
\* nearest capture runs for it.
C12_UnavailableBeforeResolution ==
    DaemonDown =>
        /\ ret.status = 503
        /\ Steps \cap {"resolve_memento", "binary_search"} = {}

\* What holds of the daemon check: it is the first step of show_uri, and a
\* request that reaches it with the daemon down is answered with 503 without
\* the index search of show_uri.
DaemonCheckedInShowUri ==
    (DaemonDown /\ "show_uri" \in Steps) =>
        /\ ret.status = 503
        /\ Last(log) = "check_daemon_is_alive"
        /\ "binary_search" \notin Steps

\* A datetime of a request URL that is one: a year, and then no month 0.
ValidDatetime(typed) ==
    Len(typed) >= 2 /\ (Len(typed) >= 3 => typed[3] # Ch.ZERO)

\* The request names no target the program accepts.
MalformedTarget ==
    \/ call.op = "show_memento" /\ ~ValidDatetime(call.datetime)
    \/ call.op = "query_timegate" /\ call.adt = Some(<<>>)
    \/ /\ call.op = "show_mementos_for_urirs_sans_js"
       /\ (call.url = None \/ \A i \in 1..Len(call.url[1]) : IsSpace(call.url[1][i]))

\* The steps that read or search the index.
IndexSteps ==
    {"resolve_memento", "show_uri", "binary_search", "generate_no_mementos_interface"}

\* C13: a direct request with an invalid datetime, a TimeGate request with an
\* Accept-Datetime that is not RFC 1123 compliant and a search without a url
\* are answered with status 400, and no step that reads or searches the index
\* runs for them.
C13_MalformedRejectedBeforeIndex ==
    MalformedTarget =>
        /\ ret.status = 400
        /\ Steps \cap IndexSteps = {}

C13_Witness ==
    /\ call.op = "query_timegate"
    /\ call.adt = Some(<<>>)
    /\ LinesOfKey(surt(call.urir)) # {}
    /\ ret.status = 400

\* A direct request that resolved to a record and then failed to fetch one of
\* its two blobs.
FetchFailed ==
    /\ call.op = "show_memento"
    /\ Last(log) \in {"cat payload", "cat header"}

\* How often a step was taken.
Times(step) == Cardinality({i \in 1..Len(log) : log[i] = step})

\* C14: a fetch of the payload or of the header blob fails after the record
\* was resolved: the response has a failure status and no replayed body, and
\* no fetch is made a second time.
C14_FetchFailureFails ==
    FetchFailed =>
        /\ ret.status >= 400
        /\ ret.body.kind # "payload"
        /\ Times("cat payload") <= 1
        /\ Times("cat header") <= 1

\* C14 holds of every fetch error but the timeout.
FetchErrorFails ==
    (/\ FetchFailed
     /\ "TimeoutError" \notin {call.env.payload_fetch, call.env.header_fetch})
        => /\ ret.status >= 400
           /\ ret.body.kind # "payload"
           /\ Times("cat payload") <= 1
           /\ Times("cat header") <= 1

\* The stored Location lines of the request's header block.
LocationLines ==
    {i \in 1..Len(call.env.header) : Lower(call.env.header[i].k) = "location"}

\* The record has a status_code that begins with '3'.
IsRedirection(record) ==
    /\ record.json.status_code # None
    /\ record.json.status_code[1][1] = Ch.ZERO + 3

\* The request URL up to and including its /<datetime>/ segment, and then L.
Rewritten(L) ==
    [base |-> "request.url", datetime |-> call.datetime, urir |-> <<>>, text |-> L]

\* C15: a record of a 3xx status whose stored Location is an absolute http(s)
\* URI L is replayed with the Location <request URL up to and including its
\* /<datetime>/ segment>L.  (Stated for header blocks with one Location.)
C15_LocationRewritten ==
    (/\ Reconstructs
     /\ IsRedirection(ReplayedRecord)
     /\ Cardinality(LocationLines) = 1
     /\ \A i \in LocationLines : isUri(StripValue(call.env.header[i].v)))
        => \A i \in LocationLines :
               GetHeader(ret, "Location")
                   = Some(Rewritten(StripValue(call.env.header[i].v)))

\* C15 holds of the requests whose URL has the datetime in full.
LocationRewrittenAtFullDatetime ==
    (/\ Reconstructs
     /\ Len(call.datetime) = Len(Stamp(1))
     /\ IsRedirection(ReplayedRecord)
     /\ Cardinality(LocationLines) = 1
     /\ \A i \in LocationLines : isUri(StripValue(call.env.header[i].v)))
        => \A i \in LocationLines :
               GetHeader(ret, "Location")
                   = Some(Rewritten(StripValue(call.env.header[i].v)))

\* C15, the other half: the Location of a record with a status_code that is
\* no 3xx, and a Location that is no absolute URI, is replayed as stored.
LocationKeptAsStored ==
    (/\ Reconstructs
     /\ ReplayedRecord.json.status_code # None
     /\ Cardinality(LocationLines) = 1
     /\ \/ ~IsRedirection(ReplayedRecord)
        \/ \A i \in LocationLines : ~isUri(StripValue(call.env.header[i].v)))
        => \A i \in LocationLines :
               GetHeader(ret, "Location")
                   = Some(HV(StripValue(call.env.header[i].v)))

(***************************************************************************)
(* Order of the captures of a key.                                         *)
(***************************************************************************)
\* The datetimes of the captures of a key in the index, as numbers.
DatetimesOfKey(s) == {DecValue(cdxj[i].datetime, 0) : i \in LinesOfKey(s)}

\* C16: the lines collected for a key come in the order of the index, which
\* is ascending in the datetime; so the memento marked "first" in the TimeMap
\* is the earliest capture of the key and the one marked "last" the latest.
C16_CapturesAscending ==
    call.op = "show_timemap" =>
        LET s == surt(call.urir)
            lines == get_cdxj_lines_with_urir(call.urir, cdxj)
            ms == SelectSeq(ret.body.data, IsMementoLine)
            dt(k) == DecValue(ms[k].datetime, 0)
        IN  /\ lines = RecordsOfKey(s)
            /\ \A i, j \in 1..Len(lines) :
                   i < j => DecValue(lines[i].datetime, 0)
                                <= DecValue(lines[j].datetime, 0)
            /\ Len(ms) = Len(lines)
            /\ \A k \in 1..Len(ms) :
                   /\ "first" \in ToSet(ms[k].rel)
                          => \A t \in DatetimesOfKey(s) : dt(k) <= t
                   /\ "last" \in ToSet(ms[k].rel)
                          => \A t \in DatetimesOfKey(s) : dt(k) >= t
            /\ Len(ms) >= 1 =>
                   /\ \E k \in 1..Len(ms) : "first" \in ToSet(ms[k].rel)
                   /\ \E k \in 1..Len(ms) : "last" \in ToSet(ms[k].rel)

C16_Witness ==
    /\ call.op = "show_timemap"
    /\ Cardinality(DatetimesOfKey(surt(call.urir))) >= 3
    /\ NumData(cdxj) > Cardinality(LinesOfKey(surt(call.urir)))
    /\ MetaCount >= 1
    /\ "last" \in ToSet(ret.body.data[Len(ret.body.data) - 1].rel)

(***************************************************************************)
(* The index read twice.                                                   *)
(***************************************************************************)
\* C17: whenever the indexer writes during a call of
\* get_cdxj_lines_with_urir, every line the call returns has the queried key.
C17_LinesOfOneSnapshot ==
    call.op = "get_cdxj_lines_with_urir" =>
        \A j \in 1..Len(ret) : IsData(ret[j]) /\ ret[j].surt = surt(call.urir)

(***************************************************************************)
(* Redirect chains.                                                        *)
(***************************************************************************)
\* The request follows a redirect of show_memento or query_timegate.
IsFollowUp == call.op = "show_memento" /\ "follows" \in DOMAIN call

\* C18: with the index unchanged, the request that follows the redirect of
\* an inexact direct request or of a TimeGate request resolves to the capture
\* of the datetime it names and goes on to show_uri for it; it is not
\* answered by a redirect to another URI-M.
C18_RedirectChainAtMostOne ==
    IsFollowUp =>
        /\ Requested = Some(call.datetime)
        /\ resolve_memento(call.urir, call.datetime, cdxj).resolved
        /\ resolve_memento(call.urir, call.datetime, cdxj).new_datetime = call.datetime
        /\ "show_uri" \in Steps
        /\ Steps \cap {"redirect", "generate_no_mementos_interface"} = {}
        /\ ~IsUriMRedirect(ret)

C18_Witness ==
    /\ IsFollowUp
    /\ call.follows = "query_timegate"
    /\ NumData(cdxj) = 2
    /\ ret.status = 200
    /\ ret.body.kind = "payload"

\* C19: a record of a 3xx status whose stored header block has no Location
\* is replayed with the status of the record and without a Location header.
C19_RedirectionWithoutLocation ==
    (/\ Reconstructs
     /\ IsRedirection(ReplayedRecord)
     /\ LocationLines = {})
        => /\ ret.status = DecValue(ReplayedRecord.json.status_code[1], 0)
           /\ GetHeader(ret, "Location") = None
           /\ ret.body.kind = "payload"

====
